---- MODULE Spec2Model ----
(***************************************************************************)
(* Tool-Call Gateway of the Smartlead MCP bridge.                          *)
(*                                                                         *)
(* The repository holds several variants of the same server.  Each process *)
(* runs one of them; `variant` says which:                                 *)
(*   "retry"  src/unnamed/part_006  stdio, switch + type guards, withRetry *)
(*   "switch" src/src/index.ts      stdio, switch dispatch, SmartLeadClient*)
(*   "prefix" src/unnamed/part_005  stdio, prefix dispatch to tools/*.ts   *)
(*   "fetch"  src/unnamed/part_004  stdio, fetch-based SmartleadClient     *)
(*   "sse"    src/unnamed/part_007  push-stream, one Server per connection *)
(*   "legacy" src/unnamed/part_000  stdio, smartlead-mcp 1.0.0: the switch  *)
(*                                  handler with the abbreviated toolSchemas*)
(***************************************************************************)
EXTENDS Integers, Sequences, FiniteSets, TLC

VARIABLES variant, retryConfig, apiKey, owner, proc, session, call, listed

vars == <<variant, retryConfig, apiKey, owner, proc, session, call, listed>>

Variants == {"retry", "switch", "prefix", "fetch", "sse", "legacy"}

----------------------------------------------------------------------------
(* Bounds of the model *)

\* push-stream connections that may be open at once
MaxSessions == 2
\* largest configured value of SMARTLEAD_RETRY_MAX_ATTEMPTS explored
MaxAttemptsBound == 3

Sessions == 1..MaxSessions

----------------------------------------------------------------------------
(* RETRY_CONFIG: defaults of part_006 and the values explored for the      *)
(* environment overrides (RetryPolicy: maxAttempts >= 1, backoffFactor >= 1)*)

DefaultMaxAttempts == 3
DefaultInitialDelay == 1000
DefaultMaxDelay == 10000
DefaultBackoffFactor == 2

InitialDelays == {DefaultInitialDelay, 6000}
MaxDelays == {DefaultMaxDelay, 4000}
BackoffFactors == {1, DefaultBackoffFactor}

DefaultRetryConfig ==
  [maxAttempts |-> DefaultMaxAttempts, initialDelay |-> DefaultInitialDelay,
   maxDelay |-> DefaultMaxDelay, backoffFactor |-> DefaultBackoffFactor]

RETRY_CONFIG ==
  [maxAttempts : 1..MaxAttemptsBound, initialDelay : InitialDelays,
   maxDelay : MaxDelays, backoffFactor : BackoffFactors]

Min(a, b) == IF a <= b THEN a ELSE b

RECURSIVE Pow(_, _)
Pow(b, e) == IF e = 0 THEN 1 ELSE b * Pow(b, e - 1)

----------------------------------------------------------------------------
(* Schema registries: name, HTTP verb and declared required properties.    *)

Tool(n, v, r) == [name |-> n, verb |-> v, required |-> r]

\* part_006: the tools of the ListTools handler, in its order
RetryTools == <<
  Tool("smartlead_create_campaign", "POST", {"name"}),
  Tool("smartlead_update_campaign_schedule", "POST", {"campaign_id"}),
  Tool("smartlead_update_campaign_settings", "POST", {"campaign_id"}),
  Tool("smartlead_get_campaign", "GET", {"campaign_id"}),
  Tool("smartlead_list_campaigns", "GET", {}),
  Tool("smartlead_save_campaign_sequence", "POST", {"campaign_id", "sequences"}),
  Tool("smartlead_get_campaign_sequence", "GET", {"campaign_id"}),
  Tool("smartlead_update_campaign_sequence", "PUT", {"campaign_id", "sequence_id"}),
  Tool("smartlead_delete_campaign_sequence", "DELETE", {"campaign_id", "sequence_id"}),
  Tool("smartlead_add_email_account_to_campaign", "POST", {"campaign_id", "email_account_id"}),
  Tool("smartlead_update_email_account_in_campaign", "PUT", {"campaign_id", "email_account_id"}),
  Tool("smartlead_delete_email_account_from_campaign", "DELETE", {"campaign_id", "email_account_id"}),
  Tool("smartlead_add_lead_to_campaign", "POST", {"campaign_id", "lead_list"}),
  Tool("smartlead_update_lead_in_campaign", "POST", {"campaign_id", "lead_id", "lead"}),
  Tool("smartlead_delete_lead_from_campaign", "DELETE", {"campaign_id", "lead_id"}),
  Tool("smartlead_list_leads_by_campaign", "GET", {"campaign_id"}),
  Tool("smartlead_get_campaign_statistics", "GET", {"campaign_id"}),
  Tool("smartlead_get_lead_message_history", "GET", {"campaign_id", "lead_id"}),
  Tool("smartlead_get_campaign_analytics", "GET", {"campaign_id"}),
  Tool("smartlead_get_campaign_analytics_by_date", "GET", {"campaign_id", "start_date", "end_date"}),
  Tool("smartlead_search_leads_by_email", "GET", {"email"}) >>

\* src/src/index.ts: toolSchemas / switch cases (campaign and lead tools)
SwitchTools == <<
  Tool("list_campaigns", "GET", {}),
  Tool("get_campaign", "GET", {"campaign_id"}),
  Tool("create_campaign", "POST", {"name"}),
  Tool("update_campaign", "PUT", {"campaign_id"}),
  Tool("delete_campaign", "DELETE", {"campaign_id"}),
  Tool("update_campaign_schedule", "POST", {"campaign_id"}),
  Tool("get_campaign_statistics", "GET", {"campaign_id"}),
  Tool("update_lead", "POST", {"campaign_id", "lead_id"}) >>

\* part_005 allTools: campaignTools (part_002), leadTools (part_001),
\* webhookTools (part_000)
PrefixTools == <<
  Tool("campaign_list", "GET", {}),
  Tool("campaign_get", "GET", {"campaignId"}),
  Tool("campaign_status_update", "POST", {"campaignId", "status"}),
  Tool("lead_list_by_campaign", "GET", {"campaignId"}),
  Tool("lead_search_by_email", "GET", {"email"}),
  Tool("lead_update_category", "POST", {"email", "campaignId", "leadCategory"}),
  Tool("lead_add_to_blocklist", "POST", {"emails"}),
  Tool("webhook_list", "GET", {}),
  Tool("webhook_delete", "DELETE", {"webhookId"}) >>

\* part_004: the tools of the fetch-based server, in ListTools order
FetchTools == <<
  Tool("smartlead_list_campaigns", "GET", {}),
  Tool("smartlead_get_campaign", "GET", {"campaign_id"}),
  Tool("smartlead_list_leads_by_campaign", "GET", {"campaign_id"}),
  Tool("smartlead_get_lead_message_history", "GET", {"campaign_id", "lead_id"}),
  Tool("smartlead_get_campaign_statistics", "GET", {"campaign_id"}),
  Tool("smartlead_search_leads_by_email", "GET", {"email"}),
  Tool("smartlead_export_campaign_data", "GET", {"campaign_id"}),
  Tool("smartlead_setup_reply_webhook", "POST", {"campaign_id", "webhook_url", "name"}),
  Tool("smartlead_get_campaign_webhooks", "GET", {"campaign_id"}),
  Tool("smartlead_get_campaign_analytics", "GET", {"campaign_id"}) >>

\* part_007: TOOLS
TOOLS == <<
  Tool("test_connection", "NONE", {}),
  Tool("get_campaigns", "NONE", {}) >>

\* part_000 (smartlead-mcp 1.0.0): toolSchemas, "abbreviated for brevity"
LegacyTools == <<
  Tool("list_campaigns", "GET", {}),
  Tool("get_campaign", "GET", {"campaign_id"}),
  Tool("export_campaign_data", "GET", {"campaign_id"}) >>

\* part_000 (smartlead-mcp 1.0.0): the case labels of the CallTool switch
LegacyCases ==
  {"list_campaigns", "get_campaign", "create_campaign", "update_campaign",
   "delete_campaign", "export_campaign_data"}

Registry(v) ==
  CASE v = "retry" -> RetryTools
    [] v = "legacy" -> LegacyTools
    [] v = "switch" -> SwitchTools
    [] v = "prefix" -> PrefixTools
    [] v = "fetch" -> FetchTools
    [] v = "sse" -> TOOLS

Range(f) == {f[i] : i \in DOMAIN f}

Last(q) == q[Len(q)]

RegisteredNames == [v \in Variants |-> {t.name : t \in Range(Registry(v))}]

ToolNames(v) == RegisteredNames[v]

DescriptorByName ==
  [v \in Variants |->
     [n \in RegisteredNames[v] |-> CHOOSE t \in Range(Registry(v)) : t.name = n]]

Lookup(v, n) == DescriptorByName[v][n]

\* Names a client may ask for that no registry holds; the second and third
\* carry a prefix the prefix dispatcher of part_005 routes on.
UnknownNames == {"no_such_tool", "campaign_bogus", "lead_bogus"}

\* for the legacy server, also the names its switch handles and its
\* toolSchemas leaves out
UnknownNamesOf(v) ==
  CASE v = "prefix" -> UnknownNames
    [] v = "legacy" -> {"no_such_tool"} \cup (LegacyCases \ RegisteredNames[v])
    [] OTHER -> {"no_such_tool"}

----------------------------------------------------------------------------
(* JSON values (an argument of a request, response.data of an answer) and  *)
(* JSON.stringify(data, null, 2) of them, character by character.  A text  *)
(* is the sequence of its characters.                                      *)

\* a JSON value: null, a boolean, a number, a string, an array of values,
\* an object (its member names in insertion order, and their values)
J(t, b, n, s, keys, items) ==
  [t |-> t, b |-> b, n |-> n, s |-> s, keys |-> keys, items |-> items]

JNull == J("null", FALSE, 0, <<>>, <<>>, <<>>)
JBool(b) == J("bool", b, 0, <<>>, <<>>, <<>>)
JNum(n) == J("num", FALSE, n, <<>>, <<>>, <<>>)
JStr(s) == J("str", FALSE, 0, s, <<>>, <<>>)
JArr(items) == J("arr", FALSE, 0, <<>>, <<>>, items)
JObj(keys, items) == J("obj", FALSE, 0, <<>>, keys, items)

\* the values the backend answers campaign_get with
JsonScalars ==
  {JNull, JBool(TRUE), JBool(FALSE), JNum(0), JNum(42), JNum(-7), JNum(1050),
   JStr(<<>>), JStr(<<"Q", "1">>), JStr(<<"a", "\"", "b">>),
   JStr(<<"\\", "n">>), JStr(<<"l", "\n", "m">>), JStr(<<"[", "]">>)}

JsonKeys == {<<"i", "d">>, <<"n", "a", "m", "e">>, <<"a", "\"">>}

JsonFlat ==
  JsonScalars
  \cup {JArr(<<>>), JObj(<<>>, <<>>)}
  \cup {JArr(<<x>>) : x \in JsonScalars}
  \cup {JArr(<<x, y>>) : x \in {JNum(42), JStr(<<"Q", "1">>)}, y \in JsonScalars}
  \cup {JObj(<<k>>, <<x>>) : k \in JsonKeys, x \in JsonScalars}
  \cup {JObj(<<<<"i", "d">>, k>>, <<JNum(42), x>>) :
          k \in JsonKeys \ {<<"i", "d">>}, x \in JsonScalars}

JsonValues ==
  JsonFlat
  \cup {JArr(<<x, x>>) : x \in JsonFlat \ JsonScalars}
  \cup {JObj(<<<<"d", "a", "t", "a">>>>, <<x>>) : x \in JsonFlat \ JsonScalars}

DigitChars == <<"0", "1", "2", "3", "4", "5", "6", "7", "8", "9">>

RECURSIVE Digits(_)
Digits(n) ==
  IF n < 10 THEN <<DigitChars[n + 1]>>
  ELSE Append(Digits(n \div 10), DigitChars[(n % 10) + 1])

NumberText(n) == IF n < 0 THEN <<"-">> \o Digits(-n) ELSE Digits(n)

\* QuoteJSONString: the characters JSON.stringify escapes
EscapeChar(c) ==
  CASE c = "\"" -> <<"\\", "\"">>
    [] c = "\\" -> <<"\\", "\\">>
    [] c = "\n" -> <<"\\", "n">>
    [] OTHER -> <<c>>

RECURSIVE EscapeChars(_)
EscapeChars(s) ==
  IF s = <<>> THEN <<>> ELSE EscapeChar(Head(s)) \o EscapeChars(Tail(s))

Quote(s) == <<"\"">> \o EscapeChars(s) \o <<"\"">>

RECURSIVE Spaces(_)
Spaces(k) == IF k = 0 THEN <<>> ELSE <<" ">> \o Spaces(k - 1)

\* the indentation unit of JSON.stringify(data, null, 2)
Gap == 2

RECURSIVE stringify(_, _)
RECURSIVE stringifyItems(_, _, _)
RECURSIVE stringifyMembers(_, _, _, _)

\* the items of an array from the k-th on, each on its own line
stringifyItems(items, k, ind) ==
  IF k > Len(items) THEN <<>>
  ELSE (IF k > 1 THEN <<",">> ELSE <<>>)
       \o <<"\n">> \o Spaces(ind) \o stringify(items[k], ind)
       \o stringifyItems(items, k + 1, ind)

\* the members of an object from the k-th on: "name": value
stringifyMembers(keys, items, k, ind) ==
  IF k > Len(keys) THEN <<>>
  ELSE (IF k > 1 THEN <<",">> ELSE <<>>)
       \o <<"\n">> \o Spaces(ind) \o Quote(keys[k]) \o <<":", " ">>
       \o stringify(items[k], ind)
       \o stringifyMembers(keys, items, k + 1, ind)

\* SerializeJSONProperty for a value at indentation `ind`
stringify(v, ind) ==
  CASE v.t = "null" -> <<"n", "u", "l", "l">>
    [] v.t = "bool" -> IF v.b THEN <<"t", "r", "u", "e">>
                       ELSE <<"f", "a", "l", "s", "e">>
    [] v.t = "num" -> NumberText(v.n)
    [] v.t = "str" -> Quote(v.s)
    [] v.t = "arr" ->
         IF v.items = <<>> THEN <<"[", "]">>
         ELSE <<"[">> \o stringifyItems(v.items, 1, ind + Gap)
              \o <<"\n">> \o Spaces(ind) \o <<"]">>
    [] v.t = "obj" ->
         IF v.keys = <<>> THEN <<"{", "}">>
         ELSE <<"{">> \o stringifyMembers(v.keys, v.items, 1, ind + Gap)
              \o <<"\n">> \o Spaces(ind) \o <<"}">>

----------------------------------------------------------------------------
(* Requests: the argument object is absent or maps property names to values *)

\* one address of a blocklist request
Address == <<"a", "@", "x">>

ArgValue(k) ==
  CASE k \in {"campaign_id", "campaignId"} -> "42"
    [] k = "api_key" -> "other"
    [] k = "emails" -> JArr(<<JStr(Address)>>)
    [] OTHER -> "x"

NoArgs == [present |-> FALSE, fields |-> [k \in {} |-> "x"]]

Args(K) == [present |-> TRUE, fields |-> [k \in K |-> ArgValue(k)]]

Has(args, k) == args.present /\ k \in DOMAIN args.fields

\* For a registered tool: no argument object, every required property, or
\* every required property but one.  For an unknown name: none or empty.
ArgsFor(v, n) ==
  IF n \in ToolNames(v)
  THEN {NoArgs, Args(Lookup(v, n).required)}
         \cup {Args(Lookup(v, n).required \ {k}) : k \in Lookup(v, n).required}
         \* a property the schema does not declare, on the tools whose
         \* arguments travel as a query
         \cup (IF Lookup(v, n).verb = "GET"
               THEN {Args(Lookup(v, n).required \cup {"api_key"})} ELSE {})
  ELSE {NoArgs, Args({})}

\* the CallTool requests a client of variant v may send
Requests ==
  [v \in Variants |->
     UNION {{[name |-> n, args |-> a] : a \in ArgsFor(v, n)} :
            n \in ToolNames(v) \cup UnknownNamesOf(v)}]

----------------------------------------------------------------------------
(* Upstream answers to one HTTP attempt *)

Resp(k, st, b) == [kind |-> k, status |-> st, body |-> b]

\* a 2xx answer with a JSON body / a 204 with no body
OkResponses ==
  {Resp("ok", "200", "OBJ"), Resp("ok", "200", "STR"), Resp("empty", "204", "")}

\* answers whose content the fetch-based client looks into: campaign
\* statistics holding a row of the lead asked for ({data: [{lead_id}]}) or
\* no row ({data: []}), and a lead list holding one lead that has replied
StatsResponses == {Resp("ok", "200", "STATS_HIT"), Resp("ok", "200", "STATS_MISS")}

LeadListResponses == {Resp("ok", "200", "LEADS"), Resp("ok", "200", "STATS_MISS")}

\* an error status, with or without an error body; no response at all
\* (connection failure, timeout); an error that is not an HTTP error
FailResponses ==
  {Resp("status", "429", ""), Resp("status", "404", ""),
   Resp("status", "404", "MSG"), Resp("status", "500", "MSG"),
   Resp("network", "", ""), Resp("other", "", "")}

Responses == OkResponses \cup FailResponses

\* the reason phrase that comes with a status line
StatusText(resp) ==
  CASE resp.status = "404" -> "Not Found"
    [] resp.status = "429" -> "Too Many Requests"
    [] resp.status = "500" -> "Internal Server Error"
    [] OTHER -> ""

\* JSON.stringify(data, null, 2) of the values the upstream answers with:
\* the object {id: 42, name: "Q1"}, the error body {message: "m"}, and the
\* empty string axios yields for an empty body
JSONstringify(b) ==
  CASE b = "OBJ" -> "{\n  \"id\": 42,\n  \"name\": \"Q1\"\n}"
    [] b = "STATS_HIT" -> "{\n  \"data\": [\n    {\n      \"lead_id\": \"x\"\n    }\n  ]\n}"
    [] b = "STATS_MISS" -> "{\n  \"data\": []\n}"
    [] b = "LEADS" ->
         "{\n  \"data\": [\n    {\n      \"lead\": {\n        \"id\": 7,\n        \"reply_count\": 1\n      }\n    }\n  ]\n}"
    [] b = "STR" -> "\"Error: boom\""
    [] b = "MSG" -> "{\n  \"message\": \"m\"\n}"
    [] b = "" -> "\"\""

\* JSON.stringify(data) of the error bodies
JSONstringifyCompact(b) ==
  CASE b = "MSG" -> "{\"message\":\"m\"}"
    [] b = "" -> "\"\""

----------------------------------------------------------------------------
(* Outcomes of the CallTool handler: a returned ToolCallResult (content    *)
(* blocks, isError flag) or a thrown fault.  `text` is the text of the     *)
(* single content block (or the fault's message) as its concatenated parts.*)

Outcome(k, e, n, t, c) ==
  [kind |-> k, isError |-> e, blocks |-> n, text |-> t, code |-> c]

NoOutcome == Outcome("none", FALSE, 0, <<>>, "")

\* { content: [{type: 'text', text}] } with no isError property
TextResult(t) == Outcome("result", FALSE, 1, t, "")

\* the handler's promise rejects with an error of class `c`
Thrown(c, t) == Outcome("thrown", FALSE, 0, t, c)

\* McpError's message as the SDK builds it: `MCP error ${code}: ${message}`
McpMessage(code, msg) == <<"MCP error ", code, ": ">> \o msg

InternalError == "-32603"
MethodNotFound == "-32601"
InvalidParams == "-32602"

createTextResponse(data) == TextResult(<<JSONstringify(data)>>)

createMcpErrorResponse(message) == Outcome("result", TRUE, 1, message, "")

----------------------------------------------------------------------------
(* part_006: type guards and the switch of the CallTool handler            *)

\* is<Tool>Params(args): args is an object and every required property has
\* its declared type
TypeGuard(n, args) ==
  args.present /\ \A k \in Lookup("retry", n).required : Has(args, k)

\* what the handler does before its first await: NoOutcome when it goes on
\* to withRetry(...), else the result its catch block returns
RetryPrecheck(n, args) ==
  IF n \notin ToolNames("retry")
  THEN createMcpErrorResponse(McpMessage(MethodNotFound, <<"Unknown tool: ", n>>))
  ELSE IF ~TypeGuard(n, args)
  THEN createMcpErrorResponse(McpMessage(InvalidParams, <<"Invalid args for ", n>>))
  ELSE NoOutcome

\* a classification that takes every HTTP error status for a rate limit
isRateLimitAnyStatus(resp) == resp.kind = "status"

isRateLimit(resp) == resp.kind = "status" /\ resp.status = "429"

\* !axiosError.response: a network error or a client timeout
isNetworkError(resp) == resp.kind \in {"network", "timeout"}

\* a retry guard that gives up one attempt early
ShouldRetryOneShort(attempt, resp) ==
  attempt < retryConfig.maxAttempts - 1 /\ (isRateLimit(resp) \/ isNetworkError(resp))

\* withRetry: attempt < maxAttempts && (isRateLimit || isNetworkError)
ShouldRetry(attempt, resp) ==
  attempt < retryConfig.maxAttempts /\ (isRateLimit(resp) \/ isNetworkError(resp))

\* a backoff that grows without the maxDelay cap
delayMsUncapped(attempt) ==
  retryConfig.initialDelay * Pow(retryConfig.backoffFactor, attempt - 1)

\* withRetry: Math.min(initialDelay * Math.pow(backoffFactor, attempt - 1), maxDelay)
delayMs(attempt) ==
  Min(retryConfig.initialDelay * Pow(retryConfig.backoffFactor, attempt - 1),
      retryConfig.maxDelay)

\* axios' message for a rejected request
AxiosMessage(resp) ==
  CASE resp.kind = "status" -> <<"Request failed with status code ", resp.status>>
    [] resp.kind = "network" -> <<"Network Error">>
    [] resp.kind = "timeout" -> <<"timeout of 30000ms exceeded">>
    [] OTHER -> <<"boom">>

\* data.message || data.error || JSON.stringify(data) of an error body
BodyDetail(resp) == IF resp.body = "MSG" THEN "m" ELSE JSONstringify(resp.body)

\* catch block of the handler, for the error withRetry re-throws
RetryFailure(resp) ==
  IF resp.kind \in {"status", "network"}
  THEN createMcpErrorResponse(McpMessage(InternalError,
         <<"Smartlead API Error: ",
           IF resp.kind = "status" THEN resp.status ELSE "500", " ">>
         \o AxiosMessage(resp)
         \o (IF resp.body # "" THEN <<" - ", BodyDetail(resp)>> ELSE <<>>)))
  ELSE createMcpErrorResponse(McpMessage(InternalError,
         <<"Tool handler error: ">> \o AxiosMessage(resp)))

----------------------------------------------------------------------------
(* src/src/index.ts: SmartLeadClient.request and the switch handler        *)

PathArg(args, k) == IF Has(args, k) THEN args.fields[k] ELSE "undefined"

\* the endpoint the client method builds for the tool
SwitchEndpoint(n, args) ==
  CASE n \in {"list_campaigns"} -> <<"/campaigns">>
    [] n = "create_campaign" -> <<"/campaigns/create">>
    [] n \in {"get_campaign", "update_campaign", "delete_campaign"} ->
         <<"/campaigns/", PathArg(args, "campaign_id")>>
    [] n = "update_campaign_schedule" ->
         <<"/campaigns/", PathArg(args, "campaign_id"), "/schedule">>
    [] n = "get_campaign_statistics" ->
         <<"/campaigns/", PathArg(args, "campaign_id"), "/statistics">>
    [] n = "update_lead" ->
         <<"/campaigns/", PathArg(args, "campaign_id"), "/leads/",
           PathArg(args, "lead_id")>>

\* `Error: ${error.message}` in a result that carries no isError property
SwitchErrorResult(msg) == TextResult(<<"Error: ">> \o msg)

\* a dispatcher that looks at the name first and asks for an argument
\* object only where the schema requires a property
SwitchPrecheckNameFirst(n, args) ==
  IF n \notin ToolNames("switch")
  THEN SwitchErrorResult(<<"Unknown tool: ", n>>)
  ELSE IF ~args.present /\ Lookup("switch", n).required # {}
  THEN SwitchErrorResult(<<"No arguments provided">>)
  ELSE NoOutcome

SwitchPrecheck(n, args) ==
  IF ~args.present THEN SwitchErrorResult(<<"No arguments provided">>)
  ELSE IF n \notin ToolNames("switch")
  THEN SwitchErrorResult(<<"Unknown tool: ", n>>)
  ELSE NoOutcome

\* request(): the error it throws for a failed attempt, as the handler's
\* catch block returns it
SwitchFailure(n, args, resp) ==
  IF resp.kind = "status" /\ resp.status = "404"
  THEN SwitchErrorResult(<<"This Smartlead API endpoint does not exist: ">>
                           \o SwitchEndpoint(n, args))
  ELSE SwitchErrorResult(<<"SmartLead API error: ">>
         \o (IF resp.body = "MSG" THEN <<"m">> ELSE AxiosMessage(resp)))

----------------------------------------------------------------------------
(* part_000 (smartlead-mcp 1.0.0): SmartLeadClient.request and the switch   *)
(* handler                                                                 *)

\* if (!args) throw ...; switch (name) { ... default: throw ... }, both
\* caught and returned as `Error: ${error.message}`
LegacyPrecheck(n, args) ==
  IF ~args.present THEN SwitchErrorResult(<<"No arguments provided">>)
  ELSE IF n \notin LegacyCases
  THEN SwitchErrorResult(<<"Unknown tool: ", n>>)
  ELSE NoOutcome

\* typeof result === 'string' ? result : JSON.stringify(result, null, 2)
LegacyText(b) ==
  CASE b = "STR" -> <<"Error: ", "boom">>
    [] b = "" -> <<"">>
    [] OTHER -> <<JSONstringify(b)>>

\* request(): if (error.response) throw new Error(JSON.stringify(
\* error.response.data)); throw new Error('SmartLead API error: ' + message)
LegacyFailure(resp) ==
  IF resp.kind = "status"
  THEN SwitchErrorResult(<<JSONstringifyCompact(resp.body)>>)
  ELSE SwitchErrorResult(<<"SmartLead API error: ">> \o AxiosMessage(resp))

----------------------------------------------------------------------------
(* part_005: prefix dispatch to handleCampaignTool (part_002),             *)
(* handleLeadTool (part_001), handleWebhookTool (part_000)                 *)

\* name.startsWith(...)
NamePrefix(n) ==
  CASE n \in {"campaign_list", "campaign_get", "campaign_status_update",
              "campaign_bogus"} -> "campaign_"
    [] n \in {"lead_list_by_campaign", "lead_search_by_email",
              "lead_update_category", "lead_add_to_blocklist", "lead_bogus"} -> "lead_"
    [] n \in {"webhook_list", "webhook_delete"} -> "webhook_"
    [] OTHER -> ""

\* catch: a McpError is re-thrown, anything else becomes McpError(InternalError)
ToolExecutionFailed(msg) ==
  Thrown(InternalError, McpMessage(InternalError, <<"Tool execution failed: ">> \o msg))

UndefinedRead == <<"Cannot read properties of undefined">>

PrefixPrecheck(n, args) ==
  CASE NamePrefix(n) = "" ->
         Thrown(MethodNotFound, McpMessage(MethodNotFound, <<"Unknown tool: ", n>>))
    [] n \in {"campaign_list", "campaign_get", "campaign_status_update"} ->
         \* args.offset, args.campaignId, args.status are read unguarded
         IF ~args.present THEN ToolExecutionFailed(UndefinedRead) ELSE NoOutcome
    [] n = "campaign_bogus" -> ToolExecutionFailed(<<"Unknown campaign tool: ", n>>)
    [] n = "lead_list_by_campaign" ->
         IF ~Has(args, "campaignId")
         THEN ToolExecutionFailed(<<"campaignId is required">>) ELSE NoOutcome
    [] n = "lead_search_by_email" ->
         IF ~Has(args, "email")
         THEN ToolExecutionFailed(<<"email is required">>) ELSE NoOutcome
    [] n = "lead_update_category" ->
         IF ~Has(args, "email") \/ ~Has(args, "campaignId") \/ ~Has(args, "leadCategory")
         THEN ToolExecutionFailed(<<"email, campaignId, and leadCategory are required">>)
         ELSE NoOutcome
    [] n = "lead_add_to_blocklist" ->
         \* !args?.emails || !Array.isArray(args.emails)
         IF ~Has(args, "emails") \/ args.fields["emails"].t # "arr"
         THEN ToolExecutionFailed(<<"emails array is required">>) ELSE NoOutcome
    [] n = "lead_bogus" -> ToolExecutionFailed(<<"Unknown lead tool: ", n>>)
    [] n = "webhook_list" -> NoOutcome
    [] n = "webhook_delete" ->
         IF ~Has(args, "webhookId")
         THEN ToolExecutionFailed(<<"webhookId is required">>) ELSE NoOutcome

\* the text block each tool builds around `json`, the parts of
\* JSON.stringify(data, null, 2)
PrefixText(n, args, json) ==
  CASE n = "campaign_status_update" ->
         TextResult(<<"Campaign ", PathArg(args, "campaignId"), " status updated to ",
                      PathArg(args, "status"), ". Response: ">> \o json)
    [] n = "lead_update_category" ->
         TextResult(<<"Lead category updated successfully. Response: ">> \o json)
    [] n = "lead_add_to_blocklist" ->
         TextResult(<<"Added ">> \o NumberText(Len(args.fields["emails"].items))
                    \o <<" email(s) to blocklist. Response: ">> \o json)
    [] n = "webhook_delete" ->
         TextResult(<<"Webhook deleted successfully. Response: ">> \o json)
    [] OTHER -> TextResult(json)

PrefixSuccess(n, args, data) == PrefixText(n, args, <<JSONstringify(data)>>)

\* utils client request(): `SmartLead API Error: ${data?.message || error.message}`
PrefixFailure(resp) ==
  IF resp.kind \in {"status", "network", "timeout"}
  THEN ToolExecutionFailed(<<"SmartLead API Error: ">>
         \o (IF resp.body = "MSG" THEN <<"m">> ELSE AxiosMessage(resp)))
  ELSE ToolExecutionFailed(AxiosMessage(resp))

----------------------------------------------------------------------------
(* part_004: fetch-based SmartleadClient.makeRequest and its handler       *)

FetchThrown(msg) == Thrown(InternalError, McpMessage(InternalError, msg))

FetchPrecheck(n, args) ==
  IF apiKey = ""
  THEN FetchThrown(<<"SMARTLEAD_API_KEY environment variable is not set">>)
  ELSE IF n \notin ToolNames("fetch")
  THEN Thrown(MethodNotFound, McpMessage(MethodNotFound, <<"Unknown tool: ", n>>))
  ELSE IF n # "smartlead_list_campaigns" /\ ~args.present
  THEN FetchThrown(UndefinedRead)     \* params.campaign_id on undefined
  ELSE NoOutcome

\* makeRequest: !response.ok throws; otherwise response.json() is returned,
\* which rejects on an empty body
\* error.message of a makeRequest that rejects
FetchErrorMessage(resp) ==
  CASE resp.kind = "empty" -> <<"Unexpected end of JSON input">>
    [] resp.kind = "status" ->
         <<"Smartlead API error: HTTP ", resp.status, ": ", StatusText(resp)>>
    [] resp.kind = "network" -> <<"fetch failed">>
    [] OTHER -> <<"boom">>

FetchComplete(resp) ==
  IF resp.kind = "ok" THEN TextResult(<<JSONstringify(resp.body)>>)
  ELSE FetchThrown(FetchErrorMessage(resp))

\* error.message.includes('404')
Includes404(resp) == resp.kind # "ok" /\ "404" \in Range(FetchErrorMessage(resp))

\* getLeadMessageHistory: the object built from the statistics rows of the
\* lead
SynthesizedHistory ==
  "{\n  \"history\": [\n    {\n      \"type\": \"SENT\"\n    }\n  ]\n}"

\* searchLeadsByEmail: the lead with lead.campaigns set
LeadWithCampaigns(campaigns) ==
  TextResult(<<"{\n  \"id\": 42,\n  \"name\": \"Q1\",\n  \"campaigns\": ",
               JSONstringify(campaigns), "\n}">>)

\* listLeadsByCampaign: the lead list with leadData.message_history or
\* leadData.message_history_error set on its lead
LeadsWith(property, value) ==
  TextResult(<<"{\n  \"data\": [\n    {\n      \"lead\": {...},\n      \"",
               property, "\": ">> \o value \o <<"\n    }\n  ]\n}">>)

----------------------------------------------------------------------------
(* part_007: the handler each push-stream connection registers             *)

SseHandler(n) ==
  CASE n = "test_connection" -> TextResult(<<"MCP connection is working correctly!">>)
    [] n = "get_campaigns" -> TextResult(<<"{\n  \"campaigns\": [...],\n  \"total\": 2\n}">>)
    [] OTHER -> Thrown("Error", <<"Unknown tool: ", n>>)

----------------------------------------------------------------------------
(* State *)

\* one CallTool request of a session: where its handler stands, the HTTP
\* attempts made so far (hist: their answers, slept: the backoff delays),
\* the handler's outcome and whether the SDK wrote the response
\* the credential as an upstream request carries it: the value of the query
\* parameter api_key and the value of a credential header ("" for none)
NoCredential == [query |-> "", header |-> ""]

\* an HTTP request as the backend client sends it: the verb, the argument
\* properties interpolated into the URL path, the query object and the body
\* object (the credential apart, see SentCredential)
NoFields == [k \in {} |-> "x"]

Request(m, path, query, body) ==
  [method |-> m, path |-> path, query |-> query, body |-> body]

NoRequest == Request("", {}, NoFields, NoFields)

IdleCall ==
  [pc |-> "idle", name |-> "", args |-> NoArgs, attempt |-> 0, upstream |-> 0,
   cred |-> NoCredential, sent |-> NoRequest,
   slept |-> <<>>, hist |-> <<>>, out |-> NoOutcome, delivered |-> "no"]

\* one transport connection: lifecycle, whether the 'close' listener is
\* registered, whether the connection's close event has fired, how often
\* the transport handle was released, and how many keep-alive frames were
\* written on the event stream (part_007 starts no timer and writes nothing
\* on `res` itself; SSEServerTransport writes the endpoint event and the
\* JSON-RPC messages only)
NoSession ==
  [state |-> "none", listener |-> FALSE, reqClosed |-> FALSE, released |-> 0,
   keepAlives |-> 0]

Stdio == variant # "sse"

\* SMARTLEAD_API_KEY as the process finds it in its environment
ApiKeys == {"key", ""}

\* whether module load gets past the credential check
\*   retry:  if (!SMARTLEAD_API_KEY) process.exit(1)
\*   switch, legacy: getApiKey() -> process.exit(1)
\*   prefix: the constructor throws, nothing catches it
\*   fetch:  the key is read inside the CallTool handler only
\*   sse:    the key is never read
RefusesToStart(v, key) == v \in {"retry", "switch", "prefix", "legacy"} /\ key = ""

\* the ListTools answers given so far: the first one of the process and the
\* latest one, with the request slot it was given on and whether a CallTool
\* request of that slot had been settled before it
NoListing == [first |-> <<>>, last |-> <<>>, slot |-> 0, afterCall |-> FALSE]

Init ==
  /\ variant \in Variants
  /\ retryConfig \in (IF variant = "retry" THEN RETRY_CONFIG ELSE {DefaultRetryConfig})
  /\ apiKey \in ApiKeys
  /\ proc = IF RefusesToStart(variant, apiKey)
            THEN [state |-> "exited", code |-> "1", diag |-> TRUE]
            ELSE [state |-> "running", code |-> "", diag |-> FALSE]
  \* a stdio server that started is inside main(), awaiting
  \* server.connect(transport)
  /\ session = [s \in Sessions |->
                  IF Stdio /\ s = 1 /\ ~RefusesToStart(variant, apiKey)
                  THEN [NoSession EXCEPT !.state = "opening"]
                  ELSE NoSession]
  \* request slot s carries the requests of connection s, one at a time
  /\ owner = [s \in Sessions |-> s]
  /\ call = [s \in Sessions |-> IdleCall]
  /\ listed = NoListing

Running == proc.state = "running"

----------------------------------------------------------------------------
(* Session layer *)

\* part_007 app.get('/'): a client asks for an event stream; a Server and an
\* SSEServerTransport are created and server.connect(transport) is awaited
SseConnect(s) ==
  /\ Running /\ variant = "sse"
  /\ session[s].state = "none"
  /\ session' = [session EXCEPT ![s].state = "opening"]
  /\ UNCHANGED <<variant, retryConfig, apiKey, owner, proc, call, listed>>

\* server.connect(transport) resolved; part_007 then registers req.on('close')
ConnectOk(s) ==
  /\ Running
  /\ session[s].state = "opening"
  /\ session' = [session EXCEPT ![s].state = "active", ![s].listener = (variant = "sse")]
  /\ UNCHANGED <<variant, retryConfig, apiKey, owner, proc, call, listed>>

\* server.connect(transport) rejected.
\*   sse:    catch logs; res.status(500).json(...) ends the response only
\*           if the headers were not sent yet
\*   retry:  catch in main() -> process.exit(1)
\*   switch: main().catch -> process.exit(1)
\*   prefix: server.run().catch(console.error), the health server lives on
\*   fetch:  main().catch(console.error), nothing keeps the process alive
ConnectFail(s, headersSent) ==
  /\ Running
  /\ session[s].state = "opening"
  /\ Stdio => ~headersSent
  /\ session' = [session EXCEPT
                   ![s].state = "failed",
                   ![s].released = IF variant = "sse" /\ ~headersSent THEN @ + 1 ELSE @]
  \* every catch writes the error with console.error first
  /\ proc' = CASE variant \in {"retry", "switch", "legacy"} ->
                  [state |-> "exited", code |-> "1", diag |-> TRUE]
               [] variant = "fetch" -> [state |-> "exited", code |-> "0", diag |-> TRUE]
               [] OTHER -> [proc EXCEPT !.diag = TRUE]
  /\ UNCHANGED <<variant, retryConfig, apiKey, owner, call, listed>>

\* server.close(): the transport is closed and its handle released
ServerClose(sess) ==
  [sess EXCEPT !.state = "closed", !.released = @ + 1]

\* a close listener that closes the Server of every connected session
\* instead of its own
ReqCloseAll(s) ==
  /\ Running /\ variant = "sse"
  /\ session[s].state \in {"opening", "active", "failed"}
  /\ ~session[s].reqClosed
  /\ session[s].state = "failed" => session[s].released = 0
  /\ session' = [t \in Sessions |->
                   IF t = s
                   THEN IF session[s].listener
                        THEN ServerClose([session[s] EXCEPT !.reqClosed = TRUE])
                        ELSE [session[s] EXCEPT !.reqClosed = TRUE]
                   ELSE IF session[s].listener /\ session[t].state = "active"
                        THEN ServerClose(session[t])
                        ELSE session[t]]
  /\ UNCHANGED <<variant, retryConfig, apiKey, owner, proc, call, listed>>

\* a close listener that only logs the disconnect and closes nothing
ReqCloseLogOnly(s) ==
  /\ Running /\ variant = "sse"
  /\ session[s].state \in {"opening", "active", "failed"}
  /\ ~session[s].reqClosed
  /\ session[s].state = "failed" => session[s].released = 0
  /\ session' = [session EXCEPT ![s].reqClosed = TRUE]
  /\ UNCHANGED <<variant, retryConfig, apiKey, owner, proc, call, listed>>

\* part_007: the connection's close event.  The listener, when registered,
\* closes this connection's own Server.
ReqClose(s) ==
  /\ Running /\ variant = "sse"
  /\ session[s].state \in {"opening", "active", "failed"}
  /\ ~session[s].reqClosed
  /\ session[s].state = "failed" => session[s].released = 0
  /\ session' = [session EXCEPT
                   ![s] = IF session[s].listener
                          THEN ServerClose([@ EXCEPT !.reqClosed = TRUE])
                          ELSE [@ EXCEPT !.reqClosed = TRUE]]
  /\ UNCHANGED <<variant, retryConfig, apiKey, owner, proc, call, listed>>

\* A termination signal.
\*   sse:    process.on('SIGTERM') -> process.exit(0), no session is closed
\*   prefix: process.on('SIGINT') -> await server.close(); process.exit(0)
\*   others: no handler, the default disposition ends the process
Shutdown ==
  /\ Running
  /\ proc' = [proc EXCEPT
                !.state = "exited",
                !.code = IF variant \in {"sse", "prefix"} THEN "0" ELSE "signal"]
  /\ session' = IF variant = "prefix" /\ session[1].state = "active"
                THEN [session EXCEPT ![1] = ServerClose(@)]
                ELSE session
  /\ UNCHANGED <<variant, retryConfig, apiKey, owner, call, listed>>

----------------------------------------------------------------------------
(* Tool dispatcher and backend client *)

Precheck(n, args) ==
  CASE variant = "retry" -> RetryPrecheck(n, args)
    [] variant = "switch" -> SwitchPrecheck(n, args)
    [] variant = "prefix" -> PrefixPrecheck(n, args)
    [] variant = "fetch" -> FetchPrecheck(n, args)
    [] variant = "sse" -> SseHandler(n)
    [] variant = "legacy" -> LegacyPrecheck(n, args)

\* the handler's outcome once the backend client has settled with `resp`
Complete(c, resp) ==
  CASE variant = "retry" ->
         IF resp.kind \in {"ok", "empty"} THEN createTextResponse(resp.body)
         ELSE RetryFailure(resp)
    [] variant = "switch" ->
         IF resp.kind \in {"ok", "empty"} THEN TextResult(<<JSONstringify(resp.body)>>)
         ELSE SwitchFailure(c.name, c.args, resp)
    [] variant = "prefix" ->
         IF resp.kind \in {"ok", "empty"} THEN PrefixSuccess(c.name, c.args, resp.body)
         ELSE PrefixFailure(resp)
    [] variant = "fetch" -> FetchComplete(resp)
    [] variant = "legacy" ->
         IF resp.kind \in {"ok", "empty"} THEN TextResult(LegacyText(resp.body))
         ELSE LegacyFailure(resp)

\* part_006 cases that hand a copy of the caller's arguments to axios as
\* the per-request query object: paramsForApi = { ...args }, only
\* campaign_id deleted, apiClient.get(url, { params: paramsForApi })
SpreadsArgsIntoQuery(n) ==
  n \in {"smartlead_list_leads_by_campaign", "smartlead_get_campaign_statistics"}

\* the credential on the request tool n sends for args.
\*   retry:  apiClient defaults params: { api_key }; axios merges the
\*           per-request params over them, key by key
\*   switch: params: { ...data, api_key: this.apiKey }
\*   prefix: params: { api_key: this.apiKey, ...params }, params built from
\*           named properties only
\*   fetch:  `${endpoint}${separator}api_key=${this.apiKey}`
SentCredential(n, args) ==
  [query |-> IF variant = "retry" /\ SpreadsArgsIntoQuery(n) /\ Has(args, "api_key")
             THEN args.fields["api_key"]
             ELSE apiKey,
   header |-> ""]

\* the named properties of args, those that are there
Pick(args, K) == [k \in K \cap DOMAIN args.fields |-> args.fields[k]]

\* args.offset || 0, args.limit || 100
Paging(args) ==
  [k \in {"offset", "limit"} |->
     IF Has(args, k) THEN args.fields[k] ELSE IF k = "offset" THEN "0" ELSE "100"]

\* handleCampaignTool, handleLeadTool, handleWebhookTool: the request each
\* case hands to the utils client
PrefixRequest(n, args) ==
  CASE n = "campaign_list" -> Request("GET", {}, Paging(args), NoFields)
    [] n = "campaign_get" -> Request("GET", {"campaignId"}, NoFields, NoFields)
    [] n = "campaign_status_update" ->
         Request("POST", {"campaignId", "status"}, NoFields, NoFields)
    [] n = "lead_list_by_campaign" ->
         Request("GET", {"campaignId"}, Paging(args), NoFields)
    [] n = "lead_search_by_email" -> Request("GET", {}, Pick(args, {"email"}), NoFields)
    [] n = "lead_update_category" ->
         Request("POST", {}, NoFields, Pick(args, {"email", "campaignId", "leadCategory"}))
    [] n = "lead_add_to_blocklist" ->
         Request("POST", {}, NoFields, Pick(args, {"emails"}))
    [] n = "webhook_list" -> Request("GET", {}, NoFields, NoFields)
    [] n = "webhook_delete" -> Request("DELETE", {"webhookId"}, NoFields, NoFields)

\* { ...args } with the properties K deleted
Without(args, K) == [k \in (DOMAIN args.fields) \ K |-> args.fields[k]]

\* the properties of f and of g, those of g winning
Merge(f, g) ==
  [k \in (DOMAIN f) \cup (DOMAIN g) |-> IF k \in DOMAIN g THEN g[k] ELSE f[k]]

\* settings: args.settings || {}
SettingsOrEmpty(args) ==
  [k \in {"settings"} |-> IF Has(args, k) THEN args.fields[k] ELSE "{}"]

\* part_006: the apiClient call of each case of the switch
RetryRequest(n, args) ==
  CASE n = "smartlead_create_campaign" ->
         Request("POST", {}, NoFields, Without(args, {}))
    [] n \in {"smartlead_update_campaign_schedule", "smartlead_update_campaign_settings"} ->
         Request("POST", {"campaign_id"}, NoFields, Without(args, {"campaign_id"}))
    [] n \in {"smartlead_get_campaign", "smartlead_get_campaign_sequence",
              "smartlead_get_campaign_analytics"} ->
         Request("GET", {"campaign_id"}, NoFields, NoFields)
    [] n = "smartlead_list_campaigns" ->
         Request("GET", {}, Pick(args, {"limit", "offset", "status"}), NoFields)
    [] n = "smartlead_save_campaign_sequence" ->
         Request("POST", {"campaign_id"}, NoFields, Pick(args, {"sequences"}))
    [] n = "smartlead_update_campaign_sequence" ->
         Request("PUT", {"campaign_id", "sequence_id"}, NoFields,
                 Without(args, {"campaign_id", "sequence_id"}))
    [] n = "smartlead_delete_campaign_sequence" ->
         Request("DELETE", {"campaign_id", "sequence_id"}, NoFields, NoFields)
    [] n = "smartlead_add_email_account_to_campaign" ->
         Request("POST", {"campaign_id"}, NoFields, Pick(args, {"email_account_id"}))
    [] n = "smartlead_update_email_account_in_campaign" ->
         Request("PUT", {"campaign_id", "email_account_id"}, NoFields,
                 SettingsOrEmpty(args))
    [] n = "smartlead_delete_email_account_from_campaign" ->
         Request("DELETE", {"campaign_id", "email_account_id"}, NoFields, NoFields)
    [] n = "smartlead_add_lead_to_campaign" ->
         Request("POST", {"campaign_id"}, NoFields,
                 Merge(Pick(args, {"lead_list"}), SettingsOrEmpty(args)))
    [] n = "smartlead_update_lead_in_campaign" ->
         Request("POST", {"campaign_id", "lead_id"}, NoFields, Pick(args, {"lead"}))
    [] n \in {"smartlead_delete_lead_from_campaign"} ->
         Request("DELETE", {"campaign_id", "lead_id"}, NoFields, NoFields)
    [] n \in {"smartlead_list_leads_by_campaign", "smartlead_get_campaign_statistics"} ->
         Request("GET", {"campaign_id"}, Without(args, {"campaign_id"}), NoFields)
    [] n = "smartlead_get_lead_message_history" ->
         Request("GET", {"campaign_id", "lead_id"}, NoFields, NoFields)
    [] n = "smartlead_get_campaign_analytics_by_date" ->
         Request("GET", {"campaign_id"}, Pick(args, {"start_date", "end_date"}), NoFields)
    [] n = "smartlead_search_leads_by_email" ->
         Request("GET", {}, Pick(args, {"email"}), NoFields)

\* index.ts: the client method each case calls, and request(endpoint,
\* method, data): data is the query of a GET and the body of any other verb
SwitchRequest(n, args) ==
  CASE n = "list_campaigns" -> Request("GET", {}, NoFields, NoFields)
    [] n = "get_campaign" -> Request("GET", {"campaign_id"}, NoFields, NoFields)
    [] n = "create_campaign" -> Request("POST", {}, NoFields, Without(args, {}))
    \* client.updateCampaign(params.campaign_id, params)
    [] n = "update_campaign" -> Request("PUT", {"campaign_id"}, NoFields, Without(args, {}))
    [] n = "delete_campaign" -> Request("DELETE", {"campaign_id"}, NoFields, NoFields)
    \* client.updateCampaignSchedule(params.campaign_id, params)
    [] n = "update_campaign_schedule" ->
         Request("POST", {"campaign_id"}, NoFields, Without(args, {}))
    \* const { campaign_id, ...statsParams } = params
    [] n = "get_campaign_statistics" ->
         Request("GET", {"campaign_id"}, Without(args, {"campaign_id"}), NoFields)
    \* const { campaign_id: cId, lead_id, ...updateData } = params
    [] n = "update_lead" ->
         Request("POST", {"campaign_id", "lead_id"}, NoFields,
                 Without(args, {"campaign_id", "lead_id"}))

\* part_000 (smartlead-mcp 1.0.0): the client method each case calls: data is the query of a GET and the
\* body of any other verb
LegacyRequest(n, args) ==
  CASE n = "list_campaigns" -> Request("GET", {}, NoFields, NoFields)
    [] n \in {"get_campaign", "export_campaign_data"} ->
         Request("GET", {"campaign_id"}, NoFields, NoFields)
    [] n = "create_campaign" -> Request("POST", {}, NoFields, Without(args, {}))
    \* client.updateCampaign(params.campaign_id, params)
    [] n = "update_campaign" -> Request("PUT", {"campaign_id"}, NoFields, Without(args, {}))
    [] n = "delete_campaign" -> Request("DELETE", {"campaign_id"}, NoFields, NoFields)

\* part_004: the makeRequest call of each client method
FetchRequest(n, args) ==
  CASE n = "smartlead_list_campaigns" -> Request("GET", {}, NoFields, NoFields)
    [] n \in {"smartlead_get_campaign", "smartlead_export_campaign_data",
              "smartlead_get_campaign_webhooks", "smartlead_get_campaign_analytics"} ->
         Request("GET", {"campaign_id"}, NoFields, NoFields)
    [] n = "smartlead_get_campaign_statistics" ->
         Request("GET", {"campaign_id"},
                 Pick(args, {"offset", "limit", "email_sequence_number", "email_status"}),
                 NoFields)
    \* the first request of the tools that make several
    [] n = "smartlead_list_leads_by_campaign" ->
         Request("GET", {"campaign_id"}, Pick(args, {"offset", "limit"}), NoFields)
    [] n = "smartlead_get_lead_message_history" ->
         Request("GET", {"campaign_id", "lead_id"}, NoFields, NoFields)
    [] n = "smartlead_search_leads_by_email" ->
         Request("GET", {}, Pick(args, {"email"}), NoFields)
    [] n = "smartlead_setup_reply_webhook" ->
         Request("POST", {"campaign_id"}, NoFields,
                 Merge([k \in {"id", "event_types", "categories"} |-> "x"],
                       Pick(args, {"name", "webhook_url"})))

\* the request tool n sends for args
RequestSent(n, args) ==
  CASE variant = "retry" -> RetryRequest(n, args)
    [] variant = "switch" -> SwitchRequest(n, args)
    [] variant = "prefix" -> PrefixRequest(n, args)
    [] variant = "fetch" -> FetchRequest(n, args)
    [] variant = "legacy" -> LegacyRequest(n, args)

\* a CallTool request reaches the handler of session s, which runs up to
\* its first await: it either settles at once or has issued attempt 1
StartCall(n, args) ==
  LET pre == Precheck(n, args) IN
  IF pre.kind # "none"
  THEN [IdleCall EXCEPT !.pc = "returned", !.name = n, !.args = args, !.out = pre]
  ELSE [IdleCall EXCEPT !.pc = "awaiting", !.name = n, !.args = args,
                        !.attempt = 1, !.upstream = 1,
                        !.cred = SentCredential(n, args),
                        !.sent = RequestSent(n, args)]

\* The handler is registered on the Server of each connection.  part_007
\* mounts no route that feeds client messages to a connection's transport;
\* there the request is handed to the handler by the environment.
CallToolFrom(s, requests) ==
  /\ Running
  /\ session[owner[s]].state = "active"
  /\ call[s].pc \in {"idle", "done"}
  /\ \E r \in requests :
       call' = [call EXCEPT ![s] = StartCall(r.name, r.args)]
  /\ UNCHANGED <<variant, retryConfig, apiKey, owner, proc, session, listed>>

CallToolRequest(s) == CallToolFrom(s, Requests[variant])

\* a ListTools handler that stops advertising the first tool once a call of
\* the slot has been settled
ListToolsShrinking(s) ==
  IF call[s].delivered # "no" THEN Tail(Registry(variant)) ELSE Registry(variant)

\* ListTools handler: the tool descriptors, in registry order
ListToolsHandler(s) == Registry(variant)

\* a ListTools request reaches the handler of slot s and is answered
ListToolsRequest(s) ==
  /\ Running
  /\ session[owner[s]].state = "active"
  /\ listed' = [first |-> IF listed.first = <<>> THEN ListToolsHandler(s)
                          ELSE listed.first,
                last |-> ListToolsHandler(s),
                slot |-> s,
                afterCall |-> call[s].delivered # "no"]
  /\ UNCHANGED <<variant, retryConfig, apiKey, owner, proc, session, call>>

\* getLeadMessageHistory: this.getCampaignStatistics({campaign_id, limit: 1000})
StatsFallbackRequest ==
  Request("GET", {"campaign_id"}, [k \in {"limit"} |-> "1000"], NoFields)

\* a fallback that is tried after any failure of the primary request
FallsBackOnAnyFailure(resp) == resp.kind # "ok"

\* getLeadMessageHistory: whether the catch of the primary request goes on
\* to the statistics request
FallsBack(resp) == Includes404(resp)

\* the tools of part_004 whose client method makes more than one request
MultiRequestTools ==
  {"smartlead_search_leads_by_email", "smartlead_get_lead_message_history",
   "smartlead_list_leads_by_campaign"}

\* part_004: the client method of call c receives the answer `resp` to its
\* request in flight (the request after those of c.hist) and either makes
\* its next request or lets the handler settle
FetchOnResponse(c, resp) ==
  LET h == Append(c.hist, resp)
      p == Len(c.hist) + 1
      settle(out) == [c EXCEPT !.pc = "returned", !.hist = h, !.out = out]
      more(req) == [c EXCEPT !.hist = h, !.upstream = @ + 1, !.sent = req]
  IN
  CASE c.name = "smartlead_search_leads_by_email" ->
         IF p = 1
         THEN \* if (lead.id): the campaigns of the lead are fetched
              IF resp.kind = "ok" /\ resp.body = "OBJ"
              THEN more(Request("GET", {}, NoFields, NoFields))
              ELSE settle(FetchComplete(resp))
         ELSE \* catch (error) { console.error(...) }; return lead
              IF resp.kind = "ok" THEN settle(LeadWithCampaigns(resp.body))
              ELSE settle(FetchComplete(c.hist[1]))
    [] c.name = "smartlead_get_lead_message_history" ->
         IF p = 1
         THEN IF FallsBack(resp) THEN more(StatsFallbackRequest)
              ELSE settle(FetchComplete(resp))
         ELSE \* stats.data.filter(...) ; throw error
              IF resp.kind = "ok" /\ resp.body = "STATS_HIT"
              THEN settle(TextResult(<<SynthesizedHistory>>))
              ELSE settle(FetchComplete(c.hist[1]))
    [] c.name = "smartlead_list_leads_by_campaign" ->
         CASE p = 1 ->
                \* for (const leadData of result.data) with a lead that replied
                IF resp.kind = "ok" /\ resp.body = "LEADS"
                THEN more(Request("GET", {"campaign_id", "lead_id"}, NoFields, NoFields))
                ELSE settle(FetchComplete(resp))
           [] p = 2 ->
                IF resp.kind = "ok"
                THEN settle(LeadsWith("message_history", <<JSONstringify(resp.body)>>))
                ELSE IF FallsBack(resp) THEN more(StatsFallbackRequest)
                ELSE settle(LeadsWith("message_history_error", FetchErrorMessage(resp)))
           [] OTHER ->
                IF resp.kind = "ok" /\ resp.body = "STATS_HIT"
                THEN settle(LeadsWith("message_history", <<SynthesizedHistory>>))
                ELSE settle(LeadsWith("message_history_error",
                                      FetchErrorMessage(c.hist[2])))
    [] OTHER -> settle(FetchComplete(resp))

\* the answers the upstream may give to the request in flight of call c
UpstreamAnswers(c) ==
  Responses
  \cup (IF variant = "fetch" /\ c.name = "smartlead_list_leads_by_campaign"
           /\ c.hist = <<>>
        THEN LeadListResponses ELSE {})
  \cup (IF variant = "fetch" /\ c.hist # <<>> /\ FallsBack(Last(c.hist))
        THEN StatsResponses ELSE {})

\* the upstream settles the attempt in flight.  part_006 goes through
\* withRetry; the client of part_004 may go on to a further request; the
\* other clients make exactly one attempt.
OnResponse(c, resp) ==
  IF variant = "fetch" THEN FetchOnResponse(c, resp)
  ELSE
  IF variant = "retry" /\ resp.kind \notin {"ok", "empty"} /\ ShouldRetry(c.attempt, resp)
  THEN [c EXCEPT !.pc = "sleeping", !.hist = Append(@, resp),
                 !.slept = Append(@, delayMs(c.attempt))]
  ELSE [c EXCEPT !.pc = "returned", !.hist = Append(@, resp),
                 !.out = Complete(c, resp)]

\* a handler whose responseData is one module-level variable: the answer
\* to one request settles every call that is awaiting the upstream
UpstreamRespondShared(s, resp) ==
  /\ Running
  /\ call[s].pc = "awaiting"
  /\ call' = [k \in Sessions |->
                IF call[k].pc = "awaiting" THEN OnResponse(call[k], resp) ELSE call[k]]
  /\ UNCHANGED <<variant, retryConfig, apiKey, owner, proc, session, listed>>

UpstreamRespond(s, resp) ==
  /\ Running
  /\ call[s].pc = "awaiting"
  /\ resp \in UpstreamAnswers(call[s])
  /\ call' = [call EXCEPT ![s] = OnResponse(@, resp)]
  /\ UNCHANGED <<variant, retryConfig, apiKey, owner, proc, session, listed>>

\* whether the HTTP client of variant v bounds the duration of an attempt:
\* only the axios instance of the utils client is created with a timeout
\* (30000); apiClient of part_006, the bare axios call of index.ts and
\* fetch in part_004 wait for the upstream without limit
HasTimeout(v) == v = "prefix"

\* the client gives up the attempt in flight: an axios error with no response
ClientTimeout(s) ==
  /\ Running
  /\ HasTimeout(variant)
  /\ call[s].pc = "awaiting"
  /\ call' = [call EXCEPT ![s] = OnResponse(@, Resp("timeout", "", ""))]
  /\ UNCHANGED <<variant, retryConfig, apiKey, owner, proc, session, listed>>

\* withRetry: delay(delayMs) elapsed, withRetry(operation, context, attempt + 1)
RetryWake(s) ==
  /\ Running
  /\ call[s].pc = "sleeping"
  /\ call' = [call EXCEPT ![s].pc = "awaiting", ![s].attempt = @ + 1,
                          ![s].upstream = @ + 1]
  /\ UNCHANGED <<variant, retryConfig, apiKey, owner, proc, session, listed>>

\* the SDK settles the request: the response is written on the session's
\* transport, or dropped when that transport is closed; the request and its
\* per-call state are discarded
Deliver(s) ==
  /\ Running
  /\ call[s].pc = "returned"
  /\ call' = [call EXCEPT ![s] = [IdleCall EXCEPT
                 !.pc = "done",
                 !.delivered = IF session[owner[s]].state = "active"
                               THEN "sent" ELSE "discarded"]]
  /\ UNCHANGED <<variant, retryConfig, apiKey, owner, proc, session, listed>>

Next ==
  \/ \E s \in Sessions : SseConnect(s)
  \/ \E s \in Sessions : ConnectOk(s)
  \/ \E s \in Sessions, h \in BOOLEAN : ConnectFail(s, h)
  \/ \E s \in Sessions : ReqClose(s)
  \/ Shutdown
  \/ \E s \in Sessions : ListToolsRequest(s)
  \/ \E s \in Sessions : CallToolRequest(s)
  \/ \E s \in Sessions, resp \in Responses \cup StatsResponses \cup LeadListResponses :
       UpstreamRespond(s, resp)
  \/ \E s \in Sessions : ClientTimeout(s)
  \/ \E s \in Sessions : RetryWake(s)
  \/ \E s \in Sessions : Deliver(s)

Spec == Init /\ [][Next]_vars

\* What the event loop guarantees: a timer that is due fires (the backoff
\* sleep, the client timeout) and a settled handler has its response
\* handed to the transport.  Nothing makes the upstream answer.
Fairness ==
  \A s \in Sessions :
    /\ WF_vars(RetryWake(s))
    /\ WF_vars(ClientTimeout(s))
    /\ WF_vars(Deliver(s))

SpecLive == Init /\ [][Next]_vars /\ Fairness

----------------------------------------------------------------------------
(* Several requests in flight on the one pipe session of part_006.  The    *)
(* SDK starts the handler of each request as it arrives, so a second       *)
(* handler runs while the first awaits the upstream or sleeps in           *)
(* withRetry.                                                              *)

\* the requests and upstream answers of this scenario: a GET and a POST
\* tool with valid arguments, a call that fails its type guard; a success,
\* a retriable and a terminal failure
CallRequests ==
  {r \in Requests["retry"] :
     /\ r.name \in {"smartlead_get_campaign", "smartlead_create_campaign"}
     /\ r.args.present}

CallResponses ==
  {Resp("ok", "200", "OBJ"), Resp("status", "429", ""), Resp("status", "404", "MSG")}

InitCalls ==
  /\ variant = "retry"
  /\ retryConfig \in {[DefaultRetryConfig EXCEPT !.maxAttempts = m] :
                        m \in 1..MaxAttemptsBound}
  /\ apiKey = "key"
  /\ proc = [state |-> "running", code |-> "", diag |-> FALSE]
  /\ session = [s \in Sessions |->
                  IF s = 1 THEN [NoSession EXCEPT !.state = "opening"] ELSE NoSession]
  \* every request slot is a request on the pipe session
  /\ owner = [s \in Sessions |-> 1]
  /\ call = [s \in Sessions |-> IdleCall]
  /\ listed = NoListing

NextCalls ==
  \/ \E s \in Sessions : ConnectOk(s)
  \/ \E s \in Sessions : CallToolFrom(s, CallRequests)
  \/ \E s \in Sessions, resp \in CallResponses : UpstreamRespond(s, resp)
  \/ \E s \in Sessions : RetryWake(s)
  \/ \E s \in Sessions : Deliver(s)

SpecCalls == InitCalls /\ [][NextCalls]_vars

----------------------------------------------------------------------------
(* Properties *)

IsFailure(resp) == resp.kind \notin {"ok", "empty"}

\* the failure classes the specification calls retriable
Retriable(resp) ==
  resp.kind = "network" \/ (resp.kind = "status" /\ resp.status = "429")

\* the handler of session s has settled and its last HTTP attempt failed
UpstreamFailed(s) ==
  /\ call[s].pc = "returned"
  /\ call[s].hist # <<>>
  /\ IsFailure(Last(call[s].hist))

\* C1: a tool call whose upstream request fails does not throw; it returns a
\* ToolCallResult with isError = true and one text block carrying a message.
C1_FailureBecomesErrorResult ==
  \A s \in Sessions :
    UpstreamFailed(s) =>
      /\ call[s].out.kind = "result"
      /\ call[s].out.isError
      /\ call[s].out.blocks = 1
      /\ call[s].out.text # <<>>

\* C2: a call of a name that is not in the registry returns isError = true
\* with a message containing the name, never throws, whatever the arguments,
\* and makes no upstream request.
C2_UnknownToolIsErrorResult ==
  \A s \in Sessions :
    (call[s].pc = "returned" /\ call[s].name \notin ToolNames(variant)) =>
      /\ call[s].out.kind = "result"
      /\ call[s].out.isError
      /\ call[s].name \in Range(call[s].out.text)
      /\ call[s].upstream = 0

\* a call of a registered tool that omits one of its required properties
OmitsRequired(s) ==
  /\ call[s].pc \in {"awaiting", "sleeping", "returned"}
  /\ call[s].name \in ToolNames(variant)
  /\ call[s].args.present
  /\ \E k \in Lookup(variant, call[s].name).required : ~Has(call[s].args, k)

\* C3: a call that omits a required property of its tool returns
\* isError = true, and no upstream request is attempted before that.
C3_MissingRequiredRejectedBeforeNetwork ==
  \A s \in Sessions :
    OmitsRequired(s) =>
      /\ call[s].upstream = 0
      /\ call[s].pc = "returned"
      /\ call[s].out.kind = "result"
      /\ call[s].out.isError

\* C4: every callTool request ends in one returned ToolCallResult holding
\* exactly one content block, never in a thrown fault.
C4_ExactlyOneReturnedResult ==
  \A s \in Sessions :
    call[s].pc = "returned" =>
      /\ call[s].out.kind = "result"
      /\ call[s].out.blocks = 1

\* the call of session s runs under withRetry with maxAttempts = 3 and its
\* first two attempts failed with a retriable condition
TwoRetriableFailures(s) ==
  /\ variant = "retry"
  /\ retryConfig.maxAttempts = 3
  /\ Len(call[s].hist) >= 2
  /\ Retriable(call[s].hist[1])
  /\ Retriable(call[s].hist[2])

\* C5: with maxAttempts = 3, an operation that fails with a retriable
\* condition twice and then succeeds makes withRetry return the success
\* value after exactly three invocations; the delay slept before the third
\* attempt is >= the delay before the second and both are <= maxDelay.
C5_TwoFailuresThenSuccess ==
  \A s \in Sessions :
    TwoRetriableFailures(s) =>
      /\ Len(call[s].slept) = 2
      /\ call[s].slept[1] <= call[s].slept[2]
      /\ call[s].slept[1] <= retryConfig.maxDelay
      /\ call[s].slept[2] <= retryConfig.maxDelay
      /\ Len(call[s].hist) = 2 =>
            /\ call[s].pc \in {"sleeping", "awaiting"}
            /\ call[s].out = NoOutcome
      /\ (Len(call[s].hist) = 3 /\ ~IsFailure(call[s].hist[3])) =>
            /\ call[s].pc = "returned"
            /\ call[s].upstream = 3
            /\ call[s].out = createTextResponse(call[s].hist[3].body)
            /\ ~call[s].out.isError

\* two retriable failures, then a success returned after the third attempt,
\* the second sleep strictly longer than the first
C5_Witness ==
  \E s \in Sessions :
    /\ TwoRetriableFailures(s)
    /\ Len(call[s].hist) = 3
    /\ call[s].hist[3].kind = "ok"
    /\ call[s].pc = "returned"
    /\ call[s].out.kind = "result"
    /\ call[s].slept[1] < call[s].slept[2]

\* C6: a failure is retried only if it is a network failure (no response)
\* or HTTP 429; any other failure ends the call at once, with no backoff
\* sleep after it, so a call whose first failure is of another class makes
\* exactly one attempt.
C6_OnlyRetriableFailuresRetried ==
  \A s \in Sessions :
    LET h == call[s].hist IN
    IF variant = "fetch"
    THEN \* the answers of h are those of different requests of the client
         \* method, each attempted once
         /\ call[s].attempt <= 1
         /\ call[s].slept = <<>>
         /\ call[s].upstream <= Len(h) + 1
    ELSE \* the answers of h are those of the attempts of one request
         /\ \A i \in 1..Len(h) :
               (IsFailure(h[i]) /\ ~Retriable(h[i])) =>
                 /\ i = Len(h)
                 /\ call[s].pc = "returned"
                 /\ call[s].attempt = i
                 /\ call[s].upstream = i
                 /\ Len(call[s].slept) = i - 1
         /\ \A i \in 1..(Len(h) - 1) : Retriable(h[i])
         /\ Len(call[s].slept) <= Len(h)
         /\ call[s].upstream <= Len(h) + 1

\* under a policy that allows retries, an HTTP 404 ended the call after one
\* attempt and no sleep
C6_Witness ==
  \E s \in Sessions :
    /\ variant = "retry"
    /\ retryConfig.maxAttempts >= 2
    /\ call[s].pc = "returned"
    /\ Len(call[s].hist) = 1
    /\ call[s].hist[1].kind = "status" /\ call[s].hist[1].status = "404"
    /\ call[s].upstream = 1
    /\ call[s].slept = <<>>
    /\ call[s].out.isError

\* the call of session s has settled and every attempt it made failed with
\* a retriable condition
OnlyRetriableFailures(s) ==
  /\ call[s].pc = "returned"
  /\ call[s].hist # <<>>
  /\ \A i \in 1..Len(call[s].hist) : Retriable(call[s].hist[i])

\* C7: for every tool, whatever its verb, an upstream that keeps failing
\* with a retriable condition is attempted exactly maxAttempts times, and
\* the failure is surfaced only after the last attempt.
C7_RetriedUpToMaxAttempts ==
  \A s \in Sessions :
    OnlyRetriableFailures(s) =>
      /\ Len(call[s].hist) = retryConfig.maxAttempts
      /\ call[s].upstream = retryConfig.maxAttempts

\* C8: an upstream answer of HTTP 204 or an empty body gives a successful
\* tool result whose content is a JSON object (not the JSON of the empty
\* string the client was handed), never a parse error or an error result.
C8_EmptyBodyIsSuccess ==
  \A s \in Sessions :
    (call[s].pc = "returned" /\ call[s].hist # <<>>
       /\ Last(call[s].hist).kind = "empty") =>
      /\ call[s].out.kind = "result"
      /\ ~call[s].out.isError
      /\ JSONstringify("") \notin Range(call[s].out.text)

\* the close event of session a's connection fires in this step
CloseEvent(a) == ~session[a].reqClosed /\ session'[a].reqClosed

Ended(s) ==
  \/ session[s].state \in {"closed", "failed"}
  \/ session[s].reqClosed
  \/ (~Running /\ session[s].state \in {"opening", "active"})

\* C10: a session's transport handle is released exactly once on every exit
\* path (client disconnect, also while the session is still connecting; a
\* failure during connect; process shutdown), and never a second time.
C10_ReleasedExactlyOnce ==
  variant = "sse" =>
    \A s \in Sessions :
      /\ session[s].released <= 1
      /\ Ended(s) => session[s].released = 1

\* the lifecycle steps of a session: Closing is the instant of
\* server.close(), which the code never holds as a state of its own; a
\* connect failure ends a session that was never Active
LifecycleSteps ==
  {<<"none", "opening">>, <<"opening", "active">>, <<"active", "closed">>,
   <<"opening", "closed">>, <<"opening", "failed">>}

\* a call of session s has an upstream request or a backoff sleep outstanding
InFlight(s) == call[s].pc \in {"awaiting", "sleeping"}

\* C11: a session's lifecycle only advances Opening, Active, Closing,
\* Closed; listTools and callTool are answered only while Active; once the
\* session is closing no new call is accepted while the calls in flight are
\* allowed to finish (the program does not end the process under them); a
\* Closed session never changes state again.
C11_LifecycleOrder ==
  [][\A s \in Sessions :
       /\ session'[s].state # session[s].state =>
             <<session[s].state, session'[s].state>> \in LifecycleSteps
       /\ (listed' # listed /\ listed'.slot = s) => session[owner[s]].state = "active"
       /\ (call[s].pc \in {"idle", "done"} /\ call'[s].pc \notin {"idle", "done"}) =>
             session[s].state = "active"
       /\ (call[s].pc = "returned" /\ call'[s].delivered = "sent") =>
             session[s].state = "active"
       /\ session[s].state = "closed" => session'[s] = session[s]
       /\ (Running /\ ~Running' /\ proc'.code # "signal") => ~InFlight(s)]_vars

\* the handler of session s has been entered and its response is not yet
\* handed to the transport
Pending(s) == call[s].pc \in {"awaiting", "sleeping", "returned"}

OwnResult(k) ==
  LET c == call[k] IN
  /\ c.pc = "returned" =>
        c.out = IF c.hist = <<>> THEN Precheck(c.name, c.args)
                ELSE Complete(c, Last(c.hist))
  /\ c.pc = "awaiting" => c.attempt = Len(c.hist) + 1
  /\ (c.pc \in {"sleeping", "returned"} /\ c.hist # <<>>) => c.attempt = Len(c.hist)
  /\ c.upstream = c.attempt
  /\ (c.pc = "returned" /\ c.hist # <<>> /\ Retriable(Last(c.hist))) =>
        Len(c.hist) = retryConfig.maxAttempts

\* C13: with several callTool requests in flight at once, each response is
\* the result computed from its own request's name and arguments and its
\* own upstream answers; a step of one call never changes the parameters,
\* the response value or the attempt counter of another call.
C13_CallsDoNotInterfere ==
  [][/\ \A j, k \in Sessions :
          (j # k /\ call'[j] # call[j]) => call'[k] = call[k]
     /\ \A k \in Sessions :
          /\ OwnResult(k)'
          /\ (Pending(k) /\ call'[k].pc # "done") =>
                (call'[k].name = call[k].name /\ call'[k].args = call[k].args)]_vars

\* two calls of one session are settled at once with different tools,
\* different attempt counters and different results
C13_Witness ==
  \E j, k \in Sessions :
    /\ j # k /\ owner[j] = owner[k]
    /\ call[j].pc = "returned" /\ call[k].pc = "returned"
    /\ call[j].name # call[k].name
    /\ call[j].attempt # call[k].attempt
    /\ call[j].out # call[k].out
    /\ call[j].out.kind = "result" /\ ~call[j].out.isError

\* C14: every tool call terminates: also when the upstream never answers,
\* each attempt is cut off and counted as a failure, so the call gets its
\* result and the session is not blocked forever (unless the process is
\* ended from outside).
C14_EveryCallTerminates ==
  \A s \in Sessions :
    Pending(s) ~> (call[s].pc = "done" \/ ~Running)

\* C15: every upstream request of a tool call carries the configured
\* credential as the query parameter api_key, never as a header, and no
\* argument of the caller removes it or replaces its value.
C15_CredentialAlwaysInQuery ==
  \A s \in Sessions :
    call[s].upstream > 0 =>
      /\ call[s].cred.query = apiKey
      /\ call[s].cred.header = ""

\* C16: with SMARTLEAD_API_KEY unset or empty the process refuses to start:
\* it has exited before any session is opened, no transport is connected
\* and no listTools or callTool request is answered.
C16_NoCredentialNoStart ==
  apiKey = "" =>
    /\ ~Running
    /\ \A s \in Sessions :
         /\ session[s].state = "none"
         /\ call[s] = IdleCall
    /\ listed = NoListing

\* C17: listTools always succeeds with the same sequence of descriptors, in
\* the same order, on every request and in every session, whatever calls
\* ran in between: every answer equals the first answer of the process,
\* which names each tool once.
C17_ListToolsStable ==
  /\ listed.last = listed.first
  /\ listed.slot # 0 => listed.first = Registry(variant)
  /\ \A i, j \in 1..Len(listed.first) :
       listed.first[i].name = listed.first[j].name => i = j

\* the tools were listed before any call, and listed again, with the same
\* answer, after a call of the session had been settled
C17_Witness ==
  /\ listed.afterCall
  /\ listed.last = listed.first
  /\ Len(listed.first) > 1
  /\ call[listed.slot].pc = "done"

\* C18: on the pipe transport, when connecting the single session fails,
\* the process writes a diagnostic message and exits with a non-zero
\* status; it does not keep running without a session and does not exit
\* with status 0.
C18_FatalErrorExitsNonZero ==
  (Stdio /\ session[1].state = "failed") =>
    /\ proc.diag
    /\ ~Running
    /\ proc.code = "1"

\* the call of session s has settled on an HTTP error status of the upstream
FailedOnStatus(s) ==
  /\ call[s].pc = "returned"
  /\ call[s].hist # <<>>
  /\ Last(call[s].hist).kind = "status"

\* C19: when a call fails on a terminal upstream status or after the
\* retries are exhausted, the error surfaced to the caller carries the
\* upstream status code, the status text and, when there is one, the
\* response body.
C19_ErrorCarriesStatusAndBody ==
  \A s \in Sessions :
    FailedOnStatus(s) =>
      LET resp == Last(call[s].hist)
          text == Range(call[s].out.text) IN
      /\ resp.status \in text
      /\ StatusText(resp) \in text
      /\ resp.body # "" => JSONstringify(resp.body) \in text

\* the fixed prefixes the handlers put in front of an error message
ErrorPrefixes == {"MCP error ", "Error: "}

\* the call of session s has settled as a failure: rejected before any
\* request, or failed on its last attempt
CallFailed(s) ==
  /\ call[s].pc = "returned"
  /\ IF call[s].hist = <<>>
     THEN ~(variant = "sse" /\ call[s].name \in ToolNames(variant))
     ELSE IsFailure(Last(call[s].hist))

\* C20: error results are told apart from success results: an error result
\* is flagged as an error and its text block starts with a fixed error
\* prefix; the result of a successful upstream value, whatever the value,
\* is not flagged and does not start with that prefix.
C20_ErrorsDistinguishable ==
  \A s \in Sessions :
    (call[s].pc = "returned" /\ call[s].out.kind = "result") =>
      IF CallFailed(s)
      THEN /\ call[s].out.isError
           /\ call[s].out.text[1] \in ErrorPrefixes
      ELSE /\ ~call[s].out.isError
           /\ call[s].out.text[1] \notin ErrorPrefixes

\* C21: a callTool request naming a tool that is not in the registry gets
\* the tool-level outcome (a returned result), never the protocol error
\* MethodNotFound.
C21_UnknownToolIsNotMethodNotFound ==
  \A s \in Sessions :
    (call[s].pc = "returned" /\ call[s].name \notin ToolNames(variant)) =>
      /\ call[s].out.kind = "result"
      /\ call[s].out.code # MethodNotFound

\* an open push-stream session with no request being served
IdleActive(s) ==
  /\ Running /\ variant = "sse"
  /\ session[s].state = "active"
  /\ call[s].pc = "idle"

\* C22: on a push-stream session that stays open, an idle Active session is
\* never left without a keep-alive forever: it gets a keep-alive frame, or
\* stops being idle, or is closed.
C22_IdleSessionGetsKeepAlive ==
  \A s \in Sessions :
    IdleActive(s) ~> (session[s].keepAlives > 0 \/ ~IdleActive(s))

----------------------------------------------------------------------------
(* campaign_get and lead_add_to_blocklist of the prefix server at the      *)
(* level of the characters of their text block                             *)

\* a campaign_get that hands a string answer up as it is and serializes
\* every other value
campaignGetStringPassthrough(data) ==
  TextResult(IF data.t = "str" THEN data.s ELSE stringify(data, 0))

\* handleCampaignTool, case 'campaign_get': one text block holding
\* JSON.stringify(data, null, 2)
campaignGet(data) == PrefixText("campaign_get", NoArgs, stringify(data, 0))

----------------------------------------------------------------------------
(* JSON.parse, as the caller applies it to the text block.  A parse step   *)
(* reads `txt` from index i and yields the value read and the index after  *)
(* it, or fails.                                                           *)

Parsed(v, i) == [ok |-> TRUE, v |-> v, i |-> i]

ParseFailed == [ok |-> FALSE, v |-> JNull, i |-> 0]

\* a text that is not JSON: JSON.parse throws a SyntaxError
SyntaxError == J("SyntaxError", FALSE, 0, <<>>, <<>>, <<>>)

At(txt, i) == IF i \in 1..Len(txt) THEN txt[i] ELSE "EOF"

IsDigit(c) == \E d \in 1..10 : DigitChars[d] = c

DigitValue(c) == (CHOOSE d \in 1..10 : DigitChars[d] = c) - 1

RECURSIVE SkipWs(_, _)
SkipWs(txt, i) ==
  IF At(txt, i) \in {" ", "\n", "\t", "\r"} THEN SkipWs(txt, i + 1) ELSE i

\* the literal `word` stands at index i
Literal(txt, i, word) ==
  \A k \in 1..Len(word) : At(txt, i + k - 1) = word[k]

RECURSIVE ParseDigits(_, _, _)
ParseDigits(txt, i, acc) ==
  IF IsDigit(At(txt, i))
  THEN ParseDigits(txt, i + 1, 10 * acc + DigitValue(At(txt, i)))
  ELSE Parsed(JNum(acc), i)

ParseNumber(txt, i) ==
  IF At(txt, i) = "-"
  THEN IF IsDigit(At(txt, i + 1))
       THEN LET r == ParseDigits(txt, i + 1, 0) IN Parsed(JNum(-r.v.n), r.i)
       ELSE ParseFailed
  ELSE ParseDigits(txt, i, 0)

\* the characters of a string from index i (after the opening quote) to
\* its closing quote, escapes undone
RECURSIVE ParseChars(_, _, _)
ParseChars(txt, i, acc) ==
  LET c == At(txt, i) IN
  CASE c = "\"" -> Parsed(JStr(acc), i + 1)
    [] c = "\\" ->
         LET e == At(txt, i + 1) IN
         CASE e = "n" -> ParseChars(txt, i + 2, Append(acc, "\n"))
           [] e \in {"\"", "\\", "/"} -> ParseChars(txt, i + 2, Append(acc, e))
           [] OTHER -> ParseFailed
    [] c \in {"EOF", "\n"} -> ParseFailed
    [] OTHER -> ParseChars(txt, i + 1, Append(acc, c))

RECURSIVE ParseValue(_, _)
RECURSIVE ParseItems(_, _, _)
RECURSIVE ParseMembers(_, _, _, _)

\* array items from index i (after '[' or ','), `acc` read so far
ParseItems(txt, i, acc) ==
  LET r == ParseValue(txt, i) IN
  IF ~r.ok THEN ParseFailed
  ELSE LET j == SkipWs(txt, r.i) IN
       CASE At(txt, j) = "," -> ParseItems(txt, j + 1, Append(acc, r.v))
         [] At(txt, j) = "]" -> Parsed(JArr(Append(acc, r.v)), j + 1)
         [] OTHER -> ParseFailed

\* object members from index i (after '{' or ',')
ParseMembers(txt, i, keys, items) ==
  LET j == SkipWs(txt, i) IN
  IF At(txt, j) # "\"" THEN ParseFailed
  ELSE LET k == ParseChars(txt, j + 1, <<>>) IN
       IF ~k.ok THEN ParseFailed
       ELSE LET c == SkipWs(txt, k.i) IN
            IF At(txt, c) # ":" THEN ParseFailed
            ELSE LET r == ParseValue(txt, c + 1) IN
                 IF ~r.ok THEN ParseFailed
                 ELSE LET e == SkipWs(txt, r.i) IN
                      CASE At(txt, e) = "," ->
                             ParseMembers(txt, e + 1, Append(keys, k.v.s),
                                          Append(items, r.v))
                        [] At(txt, e) = "}" ->
                             Parsed(JObj(Append(keys, k.v.s), Append(items, r.v)),
                                    e + 1)
                        [] OTHER -> ParseFailed

ParseValue(txt, i0) ==
  LET i == SkipWs(txt, i0)
      c == At(txt, i) IN
  CASE c = "n" -> IF Literal(txt, i, <<"n", "u", "l", "l">>)
                  THEN Parsed(JNull, i + 4) ELSE ParseFailed
    [] c = "t" -> IF Literal(txt, i, <<"t", "r", "u", "e">>)
                  THEN Parsed(JBool(TRUE), i + 4) ELSE ParseFailed
    [] c = "f" -> IF Literal(txt, i, <<"f", "a", "l", "s", "e">>)
                  THEN Parsed(JBool(FALSE), i + 5) ELSE ParseFailed
    [] c = "\"" -> ParseChars(txt, i + 1, <<>>)
    [] c = "-" \/ IsDigit(c) -> ParseNumber(txt, i)
    [] c = "[" ->
         IF At(txt, SkipWs(txt, i + 1)) = "]"
         THEN Parsed(JArr(<<>>), SkipWs(txt, i + 1) + 1)
         ELSE ParseItems(txt, i + 1, <<>>)
    [] c = "{" ->
         IF At(txt, SkipWs(txt, i + 1)) = "}"
         THEN Parsed(JObj(<<>>, <<>>), SkipWs(txt, i + 1) + 1)
         ELSE ParseMembers(txt, i + 1, <<>>, <<>>)
    [] OTHER -> ParseFailed

JSONparse(txt) ==
  LET r == ParseValue(txt, 1) IN
  IF r.ok /\ SkipWs(txt, r.i) = Len(txt) + 1 THEN r.v ELSE SyntaxError

----------------------------------------------------------------------------
(* campaign_get on the pipe session of the prefix server, the backend      *)
(* answering with any of JsonValues                                        *)

CampaignGetRequests ==
  {r \in Requests["prefix"] : r.name = "campaign_get" /\ Has(r.args, "campaignId")}

InitJson ==
  /\ variant = "prefix"
  /\ retryConfig = DefaultRetryConfig
  /\ apiKey = "key"
  /\ proc = [state |-> "running", code |-> "", diag |-> FALSE]
  /\ session = [s \in Sessions |->
                  IF s = 1 THEN [NoSession EXCEPT !.state = "opening"] ELSE NoSession]
  /\ owner = [s \in Sessions |-> s]
  /\ call = [s \in Sessions |-> IdleCall]
  /\ listed = NoListing

\* client.get(`/campaigns/${args.campaignId}`) resolves with response.data
\* = data and the handler returns its text block
CampaignGetRespond(s, data) ==
  /\ Running /\ variant = "prefix"
  /\ call[s].pc = "awaiting"
  /\ call[s].name = "campaign_get"
  /\ call' = [call EXCEPT ![s] = [@ EXCEPT !.pc = "returned",
                                           !.hist = Append(@, Resp("ok", "200", data)),
                                           !.out = campaignGet(data)]]
  /\ UNCHANGED <<variant, retryConfig, apiKey, owner, proc, session, listed>>

\* a lead_add_to_blocklist that reports the number of distinct addresses
leadAddToBlocklistDistinct(args, data) ==
  PrefixText("lead_add_to_blocklist",
             [args EXCEPT !.fields["emails"].items =
                SubSeq(@, 1, Cardinality(Range(@)))],
             stringify(data, 0))

\* handleLeadTool, case 'lead_add_to_blocklist': the text block
leadAddToBlocklist(args, data) ==
  PrefixText("lead_add_to_blocklist", args, stringify(data, 0))

Addresses == {Address, <<"b", "\"", "@", "y">>}

MaxEmails == 3

RECURSIVE SeqsUpTo(_, _)
SeqsUpTo(S, n) ==
  IF n = 0 THEN {<<>>}
  ELSE SeqsUpTo(S, n - 1) \cup {Append(q, x) : q \in SeqsUpTo(S, n - 1), x \in S}

\* emails: an array of 0..MaxEmails addresses (repeats included), or a
\* single address that is not wrapped in an array
EmailsValues ==
  {JArr(q) : q \in SeqsUpTo({JStr(a) : a \in Addresses}, MaxEmails)}
  \cup {JStr(Address)}

BlocklistRequests ==
  {[name |-> "lead_add_to_blocklist",
    args |-> [present |-> TRUE, fields |-> [k \in {"emails"} |-> e]]] :
     e \in EmailsValues}
  \cup {[name |-> "lead_add_to_blocklist", args |-> a] : a \in {NoArgs, Args({})}}

EmailsKey == <<"e", "m", "a", "i", "l", "s">>

\* what the backend answers a blocklist POST with: its body echoed, an
\* acknowledgement, nothing of note
BlocklistAnswers(c) ==
  {JObj(<<EmailsKey>>, <<c.sent.body["emails"]>>),
   JObj(<<<<"o", "k">>>>, <<JBool(TRUE)>>),
   JNull}

\* client.post('/leads/block-list', { emails }) resolves with response.data
\* = data and the handler returns its text block
BlocklistRespond(s) ==
  /\ Running /\ variant = "prefix"
  /\ call[s].pc = "awaiting"
  /\ call[s].name = "lead_add_to_blocklist"
  /\ \E data \in BlocklistAnswers(call[s]) :
       call' = [call EXCEPT ![s] =
                  [@ EXCEPT !.pc = "returned",
                            !.hist = Append(@, Resp("ok", "200", data)),
                            !.out = leadAddToBlocklist(call[s].args, data)]]
  /\ UNCHANGED <<variant, retryConfig, apiKey, owner, proc, session, listed>>

NextJson ==
  \/ \E s \in Sessions : ConnectOk(s)
  \/ \E s \in Sessions : CallToolFrom(s, CampaignGetRequests \cup BlocklistRequests)
  \/ \E s \in Sessions, data \in JsonValues : CampaignGetRespond(s, data)
  \/ \E s \in Sessions : BlocklistRespond(s)
  \/ \E s \in Sessions, resp \in FailResponses : UpstreamRespond(s, resp)
  \/ \E s \in Sessions : ClientTimeout(s)
  \/ \E s \in Sessions : Deliver(s)

SpecJson == InitJson /\ [][NextJson]_vars

\* campaign_get of session s has returned after the backend answered with a
\* JSON value
CampaignGetAnswered(s) ==
  /\ call[s].pc = "returned"
  /\ call[s].name = "campaign_get"
  /\ call[s].hist # <<>>
  /\ Last(call[s].hist).kind = "ok"

\* C23: for campaign_get with a campaignId and every JSON value v the
\* backend returns, the result has a single content block whose text,
\* parsed as JSON, equals v.
C23_CampaignGetRoundTrip ==
  \A s \in Sessions :
    CampaignGetAnswered(s) =>
      /\ call[s].out.kind = "result"
      /\ call[s].out.blocks = 1
      /\ JSONparse(call[s].out.text) = Last(call[s].hist).body

\* the backend answered with an object holding an array whose string item
\* has characters that JSON.stringify escapes
C23_Witness ==
  \E s \in Sessions :
    /\ CampaignGetAnswered(s)
    /\ Last(call[s].hist).body =
         JObj(<<<<"d", "a", "t", "a">>>>, <<JArr(<<JNum(42), JStr(<<"a", "\"", "b">>)>>)>>)
    /\ call[s].out.text =
         <<"{", "\n", " ", " ", "\"", "d", "a", "t", "a", "\"", ":", " ", "[", "\n",
           " ", " ", " ", " ", "4", "2", ",", "\n",
           " ", " ", " ", " ", "\"", "a", "\\", "\"", "b", "\"", "\n",
           " ", " ", "]", "\n", "}">>

\* q is a run of consecutive elements of text
Contains(text, q) ==
  \E i \in 0..(Len(text) - Len(q)) : SubSeq(text, i + 1, i + Len(q)) = q

\* lead_add_to_blocklist of session s was called with an array of addresses
\* and its handler is past the argument check
BlocklistCalled(s) ==
  /\ call[s].name = "lead_add_to_blocklist"
  /\ call[s].pc \in {"awaiting", "returned"}
  /\ Has(call[s].args, "emails")
  /\ call[s].args.fields["emails"].t = "arr"

\* C24: lead_add_to_blocklist called with an array of n addresses issues
\* exactly one upstream POST whose body holds exactly those addresses, and
\* when the backend answers, the result text contains the answer (every
\* address, when the backend echoes the body) together with the count n.
C24_BlocklistPostsAndReports ==
  \A s \in Sessions :
    BlocklistCalled(s) =>
      LET emails == call[s].args.fields["emails"] IN
      /\ call[s].upstream = 1
      /\ call[s].sent.method = "POST"
      /\ call[s].sent.path = {}
      /\ call[s].sent.query = NoFields
      /\ call[s].sent.body = [k \in {"emails"} |-> emails]
      /\ (call[s].pc = "returned" /\ Last(call[s].hist).kind = "ok") =>
           LET data == Last(call[s].hist).body IN
           /\ call[s].out.kind = "result"
           /\ call[s].out.blocks = 1
           /\ Contains(call[s].out.text, stringify(data, 0))
           /\ Contains(call[s].out.text,
                       <<"Added ">> \o NumberText(Len(emails.items))
                         \o <<" email(s) to blocklist. Response: ">>)
           /\ (data = JObj(<<EmailsKey>>, <<emails>>)) =>
                \A k \in 1..Len(emails.items) :
                  Contains(call[s].out.text, Quote(emails.items[k].s))

\* three addresses, one of them twice, were posted and the backend echoed
\* them
C24_Witness ==
  \E s \in Sessions :
    /\ BlocklistCalled(s)
    /\ call[s].pc = "returned"
    /\ Len(call[s].args.fields["emails"].items) = 3
    /\ Cardinality(Range(call[s].args.fields["emails"].items)) = 2
    /\ Last(call[s].hist).kind = "ok"
    /\ Last(call[s].hist).body = JObj(<<EmailsKey>>, <<call[s].args.fields["emails"]>>)
    /\ call[s].out.kind = "result"

\* C25: the delay slept after failed attempt k (1 <= k < maxAttempts) is
\* exactly min(initialDelay * backoffFactor^(k-1), maxDelay) for every
\* configured RetryPolicy, and no delay is slept after the last attempt.
C25_BackoffDelays ==
  \A s \in Sessions :
    variant = "retry" =>
      /\ \A k \in 1..Len(call[s].slept) :
           /\ k < retryConfig.maxAttempts
           /\ LET grown == retryConfig.initialDelay * (retryConfig.backoffFactor ^ (k - 1))
              IN call[s].slept[k] =
                   (IF grown < retryConfig.maxDelay THEN grown ELSE retryConfig.maxDelay)
      /\ call[s].pc = "sleeping" => Len(call[s].slept) = call[s].attempt
      /\ (call[s].pc \in {"awaiting", "returned"} /\ call[s].attempt > 0) =>
           Len(call[s].slept) = call[s].attempt - 1

\* three attempts failed; the first delay was the initial delay, the second
\* was cut down to maxDelay, and nothing was slept after the third
C25_Witness ==
  \E s \in Sessions :
    /\ variant = "retry"
    /\ retryConfig.maxAttempts = 3
    /\ call[s].pc = "returned"
    /\ call[s].attempt = 3
    /\ IsFailure(Last(call[s].hist))
    /\ call[s].slept = <<6000, 10000>>

\* C26: for every tool that takes a path parameter, the body and the query
\* sent upstream contain none of the call's path parameters: they appear
\* only in the URL path.
C26_PathParamsOnlyInPath ==
  \A s \in Sessions :
    call[s].upstream > 0 =>
      /\ (DOMAIN call[s].sent.body) \cap call[s].sent.path = {}
      /\ (DOMAIN call[s].sent.query) \cap call[s].sent.path = {}

\* the outcome tells the caller of a failure: the handler threw, or returned
\* a result flagged as an error or one whose text reports the error
SurfacesFailure(out) ==
  \/ out.kind = "thrown"
  \/ out.kind = "result" /\ (out.isError \/ Head(out.text) = "Error: ")

\* the i-th answer of the call of session s is a failure that withRetry
\* answered by issuing the request again
RetriedAfter(s, i) == variant = "retry" /\ i < Len(call[s].hist)

\* C27: the backend client never swallows errors: every upstream request
\* that fails during a tool call (and is not retried) surfaces as a failure
\* of that tool call; no failed request is dropped with the call still
\* reported as a success.
C27_NoSwallowedFailure ==
  \A s \in Sessions :
    call[s].pc = "returned" =>
      \A i \in 1..Len(call[s].hist) :
        (IsFailure(call[s].hist[i]) /\ ~RetriedAfter(s, i)) =>
          SurfacesFailure(call[s].out)

\* the answer is an HTTP 404
Is404(resp) == resp.kind = "status" /\ resp.status = "404"

\* the fault the handler of part_004 throws for a primary request that was
\* answered with HTTP 404
Primary404Fault ==
  Thrown(InternalError,
         <<"MCP error ", InternalError, ": ",
           "Smartlead API error: HTTP ", "404", ": ", "Not Found">>)

\* C29: in getLeadMessageHistory of the fetch-based client the statistics
\* fallback request is issued only after the primary message-history
\* request failed with HTTP 404; when the fallback finds messages of the
\* lead their synthesized history is returned, and when the fallback fails
\* or finds none the error surfaced is the primary request's error.
C29_FallbackOnlyAfter404 ==
  \A s \in Sessions :
    (variant = "fetch" /\ call[s].name = "smartlead_get_lead_message_history") =>
      LET h == call[s].hist IN
      \* a second request was issued: it is the statistics request and the
      \* primary request had failed with 404
      /\ call[s].upstream >= 2 =>
           /\ Is404(h[1])
           /\ call[s].upstream = 2
           /\ call[s].sent.query = [k \in {"limit"} |-> "1000"]
           /\ call[s].sent.path = {"campaign_id"}
      \* a primary request that failed otherwise ends the call at once
      /\ (Len(h) >= 1 /\ ~Is404(h[1])) => (call[s].pc = "returned" /\ Len(h) = 1)
      /\ (call[s].pc = "returned" /\ Len(h) = 2) =>
           IF h[2] = Resp("ok", "200", "STATS_HIT")
           THEN call[s].out = TextResult(<<SynthesizedHistory>>)
           ELSE call[s].out = Primary404Fault

\* the primary request was answered with 404, the statistics held rows of
\* the lead and the synthesized history was returned
C29_Witness ==
  \E s \in Sessions :
    /\ variant = "fetch"
    /\ call[s].name = "smartlead_get_lead_message_history"
    /\ call[s].pc = "returned"
    /\ Len(call[s].hist) = 2
    /\ Is404(call[s].hist[1])
    /\ call[s].hist[2] = Resp("ok", "200", "STATS_HIT")
    /\ call[s].out = TextResult(<<SynthesizedHistory>>)

----------------------------------------------------------------------------
(* Registry and dispatch *)

\* the handler takes tool n up when it comes with its required properties
\* (and the process holds a credential): the call goes on to the backend
Dispatchable(n) ==
  Precheck(n, Args(Lookup(variant, n).required)).kind = "none"

\* C28: registry and dispatch agree.  A call that has issued an upstream
\* request carries a name ListTools advertises, and every advertised tool
\* of a server that has a backend is taken up by the dispatcher.
C28_RegistryAndDispatchAgree ==
  /\ \A s \in Sessions :
       call[s].upstream > 0 => call[s].name \in ToolNames(variant)
  /\ (variant # "sse" /\ apiKey # "") =>
       \A n \in ToolNames(variant) : Dispatchable(n)

----------------------------------------------------------------------------
(* The args guard of the switch handlers (index.ts, part_000 1.0.0) *)

\* a CallTool request without an arguments object that the handler has taken
WithoutArguments(s) ==
  /\ variant \in {"switch", "legacy"}
  /\ call[s].name # ""
  /\ ~call[s].args.present

\* C30: in the switch-dispatch stdio servers a callTool request without an
\* arguments object is answered at once with the result
\* "Error: No arguments provided" and no upstream request is issued,
\* whatever the tool name: a tool without required properties, a tool with
\* some, or a name no case handles.
C30_NoArgumentsRejected ==
  \A s \in Sessions :
    WithoutArguments(s) =>
      /\ call[s].pc = "returned"
      /\ call[s].out = SwitchErrorResult(<<"No arguments provided">>)
      /\ call[s].upstream = 0
      /\ call[s].sent = NoRequest

C30_Witness ==
  \E s \in Sessions :
    /\ variant = "switch"
    /\ call[s].name = "list_campaigns"
    /\ Lookup(variant, call[s].name).required = {}
    /\ ~call[s].args.present
    /\ call[s].pc = "returned"
    /\ call[s].out.text = <<"Error: ", "No arguments provided">>
    /\ call[s].upstream = 0

====
